---- MODULE Spec2Model ----
(***************************************************************************)
(* fastcrypto-zkp: conversions between the arkworks ("Library A") and blst *)
(* ("Library B") representations of BLS12-381 field elements and points,   *)
(* and the Zcash compressed point encoding (src/fastcrypto-zkp/src/        *)
(* conversions.rs), and split_to_two_frs of bn254/utils.rs.                *)
(*                                                                         *)
(* Byte buffers keep their real sizes (32, 48, 96, 192 bytes) and the flag *)
(* bits their real positions.  A u64 is modelled by its eight base-256     *)
(* digits, least significant first, so that no 64-bit value has to be held *)
(* in one integer.  The two primes are scaled down so that the curve       *)
(* arithmetic can be enumerated: the base field is GF(19), the curves are  *)
(* y^2 = x^3 + 4 over GF(19) (order 21 = 3 * 7) and y^2 = x^3 + 4u over    *)
(* GF(19^2) (order 399 = 3 * 7 * 19), and the scalar field is GF(7), the   *)
(* order of the prime subgroups G1 and G2.  As for BLS12-381, both curve   *)
(* orders are odd (no point has y = 0), the points with x = 0 are on the   *)
(* curve but outside the prime subgroup, and the modulus leaves the top    *)
(* three bits of the 48-byte big-endian form clear.                        *)
(***************************************************************************)
EXTENDS Integers, Sequences, FiniteSets, TLC

SCALAR_SIZE == 32
G1_UNCOMPRESSED_SIZE == 96
G1_COMPRESSED_SIZE == 48
G2_UNCOMPRESSED_SIZE == 192
G2_COMPRESSED_SIZE == 96

\* ark_bls12_381::FqParameters::MODULUS and FrParameters::MODULUS, scaled.
FqModulus == 19
FrModulus == 7

---------------------------------------------------------------------------
(* Bytes, 64-bit words and big integers                                    *)

Byte == 0..255

RECURSIVE Pow2(_)
Pow2(k) == IF k = 0 THEN 1 ELSE 2 * Pow2(k - 1)

\* (b >> k) & 1
Bit(b, k) == (b \div Pow2(k)) % 2

\* b | (1 << k)
SetBit(b, k) == IF Bit(b, k) = 1 THEN b ELSE b + Pow2(k)

\* Sequences are built element by element rather than as functions
\* [i \in 1..n |-> e], so that every byte buffer is an explicit tuple.
RECURSIVE Zeros(_)
Zeros(n) ==
    IF n = 0 THEN << >>
    ELSE IF n = 1 THEN << 0 >>
    ELSE Zeros(n \div 2) \o Zeros(n - (n \div 2))

RECURSIVE Reverse(_)
Reverse(s) ==
    IF Len(s) <= 1 THEN s
    ELSE LET h == Len(s) \div 2
         IN  Reverse(SubSeq(s, h + 1, Len(s))) \o Reverse(SubSeq(s, 1, h))

\* bytes[from..to] of a Rust slice (0-based, `to` excluded)
Slice(s, from, to) == SubSeq(s, from + 1, to)

\* A u64 is the sequence of its 8 base-256 digits, least significant first.
u64_from_le_bytes(b) == b
u64_from_be_bytes(b) == Reverse(b)
u64_to_le_bytes(w) == w
u64_to_be_bytes(w) == Reverse(w)

\* [u64; n]::as_byte_slice on a little-endian target: the words' bytes in
\* memory order.
RECURSIVE as_byte_slice(_)
as_byte_slice(words) ==
    IF words = << >> THEN << >>
    ELSE u64_to_le_bytes(Head(words)) \o as_byte_slice(Tail(words))

\* the words of a little-endian byte buffer (BigInteger::read)
RECURSIVE words_from_le_bytes(_)
words_from_le_bytes(bytes) ==
    IF Len(bytes) < 8 THEN << >>
    ELSE << u64_from_le_bytes(Slice(bytes, 0, 8)) >>
            \o words_from_le_bytes(Slice(bytes, 8, Len(bytes)))

RECURSIVE PowMod(_, _, _)
PowMod(b, e, m) ==
    IF e = 0 THEN 1 % m
    ELSE LET h == PowMod(b, e \div 2, m)
         IN  IF e % 2 = 0 THEN (h * h) % m ELSE (((h * h) % m) * b) % m

\* The integer denoted by little-endian digits, reduced modulo m
\* (lo + 256^Len(lo) * hi, the two halves reduced first).
RECURSIVE LeBytesMod(_, _)
LeBytesMod(digits, m) ==
    IF digits = << >> THEN 0
    ELSE IF Len(digits) = 1 THEN digits[1] % m
    ELSE LET h == Len(digits) \div 2
             lo == LeBytesMod(SubSeq(digits, 1, h), m)
             hi == LeBytesMod(SubSeq(digits, h + 1, Len(digits)), m)
         IN  (lo + PowMod(256 % m, h, m) * hi) % m

\* The n little-endian digits of a natural number.
RECURSIVE NatToLeBytes(_, _)
NatToLeBytes(v, n) ==
    IF n = 0 THEN << >>
    ELSE IF v = 0 THEN Zeros(n)
    ELSE << v % 256 >> \o NatToLeBytes(v \div 256, n - 1)

\* a < b for two little-endian digit strings of the same length
RECURSIVE LeBytesLess(_, _)
LeBytesLess(a, b) ==
    IF a = << >> THEN FALSE
    ELSE IF Len(a) = 1 THEN a[1] < b[1]
    ELSE LET n == Len(a)
             h == n \div 2
         IN  IF SubSeq(a, h + 1, n) # SubSeq(b, h + 1, n)
             THEN LeBytesLess(SubSeq(a, h + 1, n), SubSeq(b, h + 1, n))
             ELSE LeBytesLess(SubSeq(a, 1, h), SubSeq(b, 1, h))

None == [some |-> FALSE]
Some(v) == [some |-> TRUE, v |-> v]

---------------------------------------------------------------------------
(* Library A (arkworks 0.3) field elements: the residue itself             *)

Fr == 0..(FrModulus - 1)
Fq == 0..(FqModulus - 1)

\* Fp::from_repr: None unless the big integer is below the modulus
from_repr(words, modulus) ==
    LET digits == as_byte_slice(words) IN
    IF LeBytesLess(digits, NatToLeBytes(modulus, Len(digits)))
    THEN Some(LeBytesMod(digits, modulus))
    ELSE None

\* Fp::into_repr: the canonical integer as little-endian 64-bit limbs
into_repr(f, nwords) == words_from_le_bytes(NatToLeBytes(f, 8 * nwords))

\* CanonicalSerialize for a prime field element: little-endian bytes
serialize_fp(f, size) == NatToLeBytes(f, size)

\* PrimeField::from_le_bytes_mod_order / from_be_bytes_mod_order
from_le_bytes_mod_order(bytes, modulus) == LeBytesMod(bytes, modulus)
from_be_bytes_mod_order(bytes, modulus) == LeBytesMod(Reverse(bytes), modulus)

\* <Fq as FromBytes>::read: an error for a value that is not below the modulus
Fq_read(bytes) == from_repr(words_from_le_bytes(bytes), FqModulus)

---------------------------------------------------------------------------
(* Library B (blst) field elements: limbs in Montgomery form               *)

\* R = 2^256 mod r and R = 2^384 mod p, and their inverses
FrR == PowMod(2, 8 * SCALAR_SIZE, FrModulus)
FpR == PowMod(2, 8 * G1_COMPRESSED_SIZE, FqModulus)
FrRInv == CHOOSE i \in Fr : (i * FrR) % FrModulus = 1
FpRInv == CHOOSE i \in Fq : (i * FpR) % FqModulus = 1

blst_fr_from_uint64(words) ==
    [l |-> (LeBytesMod(as_byte_slice(words), FrModulus) * FrR) % FrModulus]

blst_uint64_from_fr(fe) ==
    words_from_le_bytes(NatToLeBytes((fe.l * FrRInv) % FrModulus, SCALAR_SIZE))

blst_fp_from_lendian(bytes) ==
    [l |-> (LeBytesMod(bytes, FqModulus) * FpR) % FqModulus]

blst_fp_from_uint64(words) == blst_fp_from_lendian(as_byte_slice(words))

blst_uint64_from_fp(f) ==
    words_from_le_bytes(
        NatToLeBytes((f.l * FpRInv) % FqModulus, G1_UNCOMPRESSED_SIZE \div 2))

\* from_fp followed by be_bytes_from_limbs
blst_fp_to_be_bytes(f) ==
    Reverse(NatToLeBytes((f.l * FpRInv) % FqModulus, G1_COMPRESSED_SIZE))

---------------------------------------------------------------------------
(* Scalar field conversions                                                *)

\* a variant that reads every word big-endian
u64s_from_bytes_be(bytes) ==
    << u64_from_be_bytes(Slice(bytes, 0, 8)),
       u64_from_be_bytes(Slice(bytes, 8, 16)),
       u64_from_be_bytes(Slice(bytes, 16, 24)),
       u64_from_be_bytes(Slice(bytes, 24, 32)) >>

u64s_from_bytes(bytes) ==
    << u64_from_le_bytes(Slice(bytes, 0, 8)),
       u64_from_le_bytes(Slice(bytes, 8, 16)),
       u64_from_le_bytes(Slice(bytes, 16, 24)),
       u64_from_le_bytes(Slice(bytes, 24, 32)) >>

bls_fr_to_blst_fr(fe) ==
    LET bytes == serialize_fp(fe, SCALAR_SIZE)
        bytes_u64 == u64s_from_bytes(bytes)
    IN  blst_fr_from_uint64(bytes_u64)

\* a variant that reads the bytes of the words most significant first
blst_fr_to_bls_fr_be(fe) ==
    LET out == blst_uint64_from_fr(fe)
        bytes == as_byte_slice(out)
    IN  from_be_bytes_mod_order(bytes, FrModulus)

blst_fr_to_bls_fr(fe) ==
    LET out == blst_uint64_from_fr(fe)
        bytes == as_byte_slice(out)
    IN  from_le_bytes_mod_order(bytes, FrModulus)

---------------------------------------------------------------------------
(* Base field and extension field conversions.  For a conversion f that    *)
(* can panic (unwrap, assert!), f_panics(x) tells whether it does on x,    *)
(* and f(x) is its result when it does not.                                *)

bls_fq_to_blst_fp(f) ==
    LET fp_bytes_le == serialize_fp(f, G1_UNCOMPRESSED_SIZE \div 2)
    IN  blst_fp_from_lendian(fp_bytes_le)

blst_fp_to_bls_fq_read(f) ==
    LET out == blst_uint64_from_fp(f)
        bytes == as_byte_slice(out)
    IN  Fq_read(bytes)

blst_fp_to_bls_fq_panics(f) == ~blst_fp_to_bls_fq_read(f).some

blst_fp_to_bls_fq(f) == blst_fp_to_bls_fq_read(f).v

---------------------------------------------------------------------------
(* QFE and target field conversions                                        *)

\* CanonicalSerialize for Fq2: c0 then c1
serialize_fq2(f) ==
    serialize_fp(f.c0, G1_UNCOMPRESSED_SIZE \div 2)
        \o serialize_fp(f.c1, G1_UNCOMPRESSED_SIZE \div 2)

\* slice::chunks(n)
RECURSIVE chunks(_, _)
chunks(bytes, n) ==
    IF bytes = << >> THEN << >>
    ELSE IF Len(bytes) <= n THEN << bytes >>
    ELSE << SubSeq(bytes, 1, n) >> \o chunks(SubSeq(bytes, n + 1, Len(bytes)), n)

Fq2_new(c0, c1) == [c0 |-> c0, c1 |-> c1]
Fq6_new(c0, c1, c2) == [c0 |-> c0, c1 |-> c1, c2 |-> c2]
Fq12_new(c0, c1) == [c0 |-> c0, c1 |-> c1]

\* .map(|fp_bytes| blst_fp_from_lendian(..)).collect()
RECURSIVE map_blst_fp_from_lendian(_)
map_blst_fp_from_lendian(parts) ==
    IF parts = << >> THEN << >>
    ELSE << blst_fp_from_lendian(Head(parts)) >>
            \o map_blst_fp_from_lendian(Tail(parts))

bls_fq2_to_blst_fp2(f) ==
    LET fp_bytes_le == serialize_fq2(f)
    IN  [fp |-> map_blst_fp_from_lendian(chunks(fp_bytes_le, 48))]

blst_fp2_to_bls_fq2_panics(f) ==
    blst_fp_to_bls_fq_panics(f.fp[1]) \/ blst_fp_to_bls_fq_panics(f.fp[2])

\* a variant that swaps the two components
blst_fp2_to_bls_fq2_swapped(f) ==
    Fq2_new(blst_fp_to_bls_fq(f.fp[2]), blst_fp_to_bls_fq(f.fp[1]))

blst_fp2_to_bls_fq2(f) ==
    LET fp1 == f.fp[1]
        fp2 == f.fp[2]
        bls_fp1 == blst_fp_to_bls_fq(fp1)
        bls_fp2 == blst_fp_to_bls_fq(fp2)
    IN  Fq2_new(bls_fp1, bls_fp2)

bls_fq6_to_blst_fp6(f) ==
    LET c0 == bls_fq2_to_blst_fp2(f.c0)
        c1 == bls_fq2_to_blst_fp2(f.c1)
        c2 == bls_fq2_to_blst_fp2(f.c2)
    IN  [fp2 |-> << c0, c1, c2 >>]

blst_fp6_to_bls_fq6_panics(f) ==
    \E i \in 1..3 : blst_fp2_to_bls_fq2_panics(f.fp2[i])

blst_fp6_to_bls_fq6(f) ==
    LET c0 == blst_fp2_to_bls_fq2(f.fp2[1])
        c1 == blst_fp2_to_bls_fq2(f.fp2[2])
        c2 == blst_fp2_to_bls_fq2(f.fp2[3])
    IN  Fq6_new(c0, c1, c2)

bls_fq12_to_blst_fp12(f) ==
    LET c0 == bls_fq6_to_blst_fp6(f.c0)
        c1 == bls_fq6_to_blst_fp6(f.c1)
    IN  [fp6 |-> << c0, c1 >>]

blst_fp12_to_bls_fq12_panics(f) ==
    \E i \in 1..2 : blst_fp6_to_bls_fq6_panics(f.fp6[i])

blst_fp12_to_bls_fq12(f) ==
    LET c0 == blst_fp6_to_bls_fq6(f.fp6[1])
        c1 == blst_fp6_to_bls_fq6(f.fp6[2])
    IN  Fq12_new(c0, c1)

---------------------------------------------------------------------------
(* Field and curve arithmetic of Library A                                 *)

FqAdd(a, b) == (a + b) % FqModulus
FqSub(a, b) == (a + FqModulus - b) % FqModulus
FqNeg(a) == (FqModulus - a) % FqModulus
FqMul(a, b) == (a * b) % FqModulus
FqInv(a) == PowMod(a, FqModulus - 2, FqModulus)
\* Fp::sqrt: a square root when there is one
FqSqrt(a) ==
    IF \E y \in Fq : FqMul(y, y) = a
    THEN Some(CHOOSE y \in Fq : FqMul(y, y) = a)
    ELSE None
\* Ord for Fp: by the canonical integer
FqGreater(a, b) == a > b

\* Fq2 = Fq[u] / (u^2 + 1)
Fq2 == [c0 : Fq, c1 : Fq]
Fq2Zero == Fq2_new(0, 0)
Fq2One == Fq2_new(1, 0)
Fq2Add(a, b) == Fq2_new(FqAdd(a.c0, b.c0), FqAdd(a.c1, b.c1))
Fq2Sub(a, b) == Fq2_new(FqSub(a.c0, b.c0), FqSub(a.c1, b.c1))
Fq2Neg(a) == Fq2_new(FqNeg(a.c0), FqNeg(a.c1))
Fq2Mul(a, b) ==
    Fq2_new(FqSub(FqMul(a.c0, b.c0), FqMul(a.c1, b.c1)),
            FqAdd(FqMul(a.c0, b.c1), FqMul(a.c1, b.c0)))
Fq2Inv(a) ==
    LET n == FqInv(FqAdd(FqMul(a.c0, a.c0), FqMul(a.c1, a.c1)))
    IN  Fq2_new(FqMul(a.c0, n), FqMul(FqNeg(a.c1), n))
\* Field::sqrt: a root c0 + c1 u has c1 = a.c1 / (2 c0), or c0 = 0
Fq2Sqrt(a) ==
    LET cand == { Fq2_new(c0, FqMul(a.c1, FqInv(FqMul(2, c0)))) :
                      c0 \in Fq \ {0} }
                    \cup { Fq2_new(0, c1) : c1 \in Fq }
        roots == { y \in cand : Fq2Mul(y, y) = a }
    IN  IF roots = {} THEN None ELSE Some(CHOOSE y \in roots : TRUE)
\* Ord for QuadExtField: c1 first, then c0
Fq2Greater(a, b) ==
    IF a.c1 # b.c1 THEN a.c1 > b.c1 ELSE a.c0 > b.c0

\* The coefficient b of y^2 = x^3 + b, for G1 and for G2
G1_COEFF_B == 4
G2_COEFF_B == Fq2_new(0, 4)

\* GroupAffine::new, and GroupAffine::default = zero = (0, 1, infinity)
GroupAffine_new(x, y, infinity) == [x |-> x, y |-> y, infinity |-> infinity]
BlsG1Affine_default == GroupAffine_new(0, 1, TRUE)
BlsG2Affine_default == GroupAffine_new(Fq2Zero, Fq2One, TRUE)

G1OnCurve(x, y) == FqMul(y, y) = FqAdd(FqMul(FqMul(x, x), x), G1_COEFF_B)
G2OnCurve(x, y) == Fq2Mul(y, y) = Fq2Add(Fq2Mul(Fq2Mul(x, x), x), G2_COEFF_B)

\* GroupAffine::get_point_from_x
\* a variant that returns the root the square root gives, whatever the
\* caller asks for
BlsG1Affine_get_point_from_x_greatest_ignored(x, greatest) ==
    LET x3b == FqAdd(FqMul(FqMul(x, x), x), G1_COEFF_B)
        r == FqSqrt(x3b)
    IN  IF ~r.some THEN None ELSE Some(GroupAffine_new(x, r.v, FALSE))

BlsG1Affine_get_point_from_x(x, greatest) ==
    LET x3b == FqAdd(FqMul(FqMul(x, x), x), G1_COEFF_B)
        r == FqSqrt(x3b)
    IN  IF ~r.some THEN None
        ELSE LET y == r.v
                 negy == FqNeg(y)
             IN  Some(GroupAffine_new(
                     x,
                     IF FqGreater(negy, y) # greatest THEN y ELSE negy,
                     FALSE))

\* a variant with the choice between the two roots reversed
BlsG2Affine_get_point_from_x_reversed(x, greatest) ==
    LET x3b == Fq2Add(Fq2Mul(Fq2Mul(x, x), x), G2_COEFF_B)
        r == Fq2Sqrt(x3b)
    IN  IF ~r.some THEN None
        ELSE LET y == r.v
                 negy == Fq2Neg(y)
             IN  Some(GroupAffine_new(
                     x,
                     IF Fq2Greater(negy, y) # greatest THEN negy ELSE y,
                     FALSE))

BlsG2Affine_get_point_from_x(x, greatest) ==
    LET x3b == Fq2Add(Fq2Mul(Fq2Mul(x, x), x), G2_COEFF_B)
        r == Fq2Sqrt(x3b)
    IN  IF ~r.some THEN None
        ELSE LET y == r.v
                 negy == Fq2Neg(y)
             IN  Some(GroupAffine_new(
                     x,
                     IF Fq2Greater(negy, y) # greatest THEN y ELSE negy,
                     FALSE))

\* The group law on affine points (projective arithmetic and into_affine)
G1Add(p, q) ==
    IF p.infinity THEN q
    ELSE IF q.infinity THEN p
    ELSE IF p.x = q.x /\ FqAdd(p.y, q.y) = 0 THEN BlsG1Affine_default
    ELSE LET l == IF p = q
                  THEN FqMul(FqMul(3, FqMul(p.x, p.x)), FqInv(FqMul(2, p.y)))
                  ELSE FqMul(FqSub(q.y, p.y), FqInv(FqSub(q.x, p.x)))
             x == FqSub(FqSub(FqMul(l, l), p.x), q.x)
         IN  GroupAffine_new(x, FqSub(FqMul(l, FqSub(p.x, x)), p.y), FALSE)

G2Add(p, q) ==
    IF p.infinity THEN q
    ELSE IF q.infinity THEN p
    ELSE IF p.x = q.x /\ Fq2Add(p.y, q.y) = Fq2Zero THEN BlsG2Affine_default
    ELSE LET l == IF p = q
                  THEN Fq2Mul(Fq2Mul(Fq2_new(3, 0), Fq2Mul(p.x, p.x)),
                              Fq2Inv(Fq2Mul(Fq2_new(2, 0), p.y)))
                  ELSE Fq2Mul(Fq2Sub(q.y, p.y), Fq2Inv(Fq2Sub(q.x, p.x)))
             x == Fq2Sub(Fq2Sub(Fq2Mul(l, l), p.x), q.x)
         IN  GroupAffine_new(x, Fq2Sub(Fq2Mul(l, Fq2Sub(p.x, x)), p.y), FALSE)

RECURSIVE G1Mul(_, _)
G1Mul(p, s) == IF s = 0 THEN BlsG1Affine_default ELSE G1Add(p, G1Mul(p, s - 1))

RECURSIVE G2Mul(_, _)
G2Mul(p, s) == IF s = 0 THEN BlsG2Affine_default ELSE G2Add(p, G2Mul(p, s - 1))

\* prime_subgroup_generator(), of order FrModulus
G1Generator == GroupAffine_new(1, 9, FALSE)
G2Generator == GroupAffine_new(Fq2_new(0, 8), Fq2_new(8, 11), FALSE)

\* The valid points of Library A: generator.mul(s).into_affine(), s in Fr
ValidBlsG1 == { G1Mul(G1Generator, s) : s \in Fr }
ValidBlsG2 == { G2Mul(G2Generator, s) : s \in Fr }

---------------------------------------------------------------------------
(* Library B points and its native (de)serializers                         *)

blst_fp_zero == [l |-> 0]
blst_fp2_zero == [fp |-> << blst_fp_zero, blst_fp_zero >>]
blst_p1_affine_default == [x |-> blst_fp_zero, y |-> blst_fp_zero]
blst_p2_affine_default == [x |-> blst_fp2_zero, y |-> blst_fp2_zero]

\* from_fp: the canonical integer of a Montgomery-form element
from_fp(f) == (f.l * FpRInv) % FqModulus
\* mul_fp(ret, a, BLS12_381_RR)
to_fp(v) == [l |-> (v * FpR) % FqModulus]
from_fp2(f) == Fq2_new(from_fp(f.fp[1]), from_fp(f.fp[2]))
to_fp2(v) == [fp |-> << to_fp(v.c0), to_fp(v.c1) >>]

\* the sign bit of sgn0_pty_mod_384 and of sgn0_pty_mod_384x
blst_sgn0_fp(v) == 2 * v > FqModulus
blst_sgn0_fp2(v) == IF v.c1 # 0 THEN blst_sgn0_fp(v.c1) ELSE blst_sgn0_fp(v.c0)

\* limbs_from_be_bytes, as little-endian digits; top 3 bits cleared on demand
blst_limbs_from_be_bytes(bytes, clear) ==
    LET d == Reverse(bytes)
    IN  IF clear THEN [d EXCEPT ![Len(d)] = d[Len(d)] % 32] ELSE d

blst_less_than_modulus(d) == LeBytesLess(d, NatToLeBytes(FqModulus, Len(d)))

blst_p1_affine_serialize(in) ==
    IF in.x.l = 0 /\ in.y.l = 0
    THEN [Zeros(96) EXCEPT ![1] = 64]
    ELSE blst_fp_to_be_bytes(in.x) \o blst_fp_to_be_bytes(in.y)

blst_p2_affine_serialize(in) ==
    IF in.x = blst_fp2_zero /\ in.y = blst_fp2_zero
    THEN [Zeros(192) EXCEPT ![1] = 64]
    ELSE blst_fp_to_be_bytes(in.x.fp[2]) \o blst_fp_to_be_bytes(in.x.fp[1])
            \o blst_fp_to_be_bytes(in.y.fp[2]) \o blst_fp_to_be_bytes(in.y.fp[1])

blst_p1_affine_compress(in) ==
    IF in.x.l = 0
    THEN [Zeros(48) EXCEPT ![1] = 192]
    ELSE LET out == blst_fp_to_be_bytes(in.x)
             b0 == SetBit(out[1], 7)
         IN  [out EXCEPT ![1] = IF blst_sgn0_fp(from_fp(in.y))
                                 THEN SetBit(b0, 5) ELSE b0]

blst_p2_affine_compress(in) ==
    IF in.x = blst_fp2_zero
    THEN [Zeros(96) EXCEPT ![1] = 192]
    ELSE LET out == blst_fp_to_be_bytes(in.x.fp[2])
                        \o blst_fp_to_be_bytes(in.x.fp[1])
             b0 == SetBit(out[1], 7)
         IN  [out EXCEPT ![1] = IF blst_sgn0_fp2(from_fp2(in.y))
                                 THEN SetBit(b0, 5) ELSE b0]

BlstResult(err, pt) == [err |-> err, p |-> pt]

\* POINTonE1_Deserialize_BE
blst_p1_deserialize_be(in) ==
    LET xd == blst_limbs_from_be_bytes(Slice(in, 0, 48), TRUE)
        yd == blst_limbs_from_be_bytes(Slice(in, 48, 96), FALSE)
    IN  IF ~blst_less_than_modulus(xd) \/ ~blst_less_than_modulus(yd)
        THEN BlstResult("BLST_BAD_ENCODING", blst_p1_affine_default)
        ELSE LET x == LeBytesMod(xd, FqModulus)
                 y == LeBytesMod(yd, FqModulus)
             IN  IF ~G1OnCurve(x, y)
                 THEN BlstResult("BLST_POINT_NOT_ON_CURVE", blst_p1_affine_default)
                 ELSE BlstResult("BLST_SUCCESS", [x |-> to_fp(x), y |-> to_fp(y)])

\* POINTonE1_Uncompress_Z = blst_p1_uncompress
blst_p1_uncompress(in) ==
    LET in0 == in[1] IN
    IF Bit(in0, 7) = 0
    THEN BlstResult("BLST_BAD_ENCODING", blst_p1_affine_default)
    ELSE IF Bit(in0, 6) = 1
    THEN IF in0 % 64 = 0 /\ Slice(in, 1, 48) = Zeros(47)
         THEN BlstResult("BLST_SUCCESS", blst_p1_affine_default)
         ELSE BlstResult("BLST_BAD_ENCODING", blst_p1_affine_default)
    ELSE LET xd == blst_limbs_from_be_bytes(Slice(in, 0, 48), TRUE) IN
         IF ~blst_less_than_modulus(xd)
         THEN BlstResult("BLST_BAD_ENCODING", blst_p1_affine_default)
         ELSE LET x == LeBytesMod(xd, FqModulus)
                  r == FqSqrt(FqAdd(FqMul(FqMul(x, x), x), G1_COEFF_B))
              IN  IF ~r.some
                  THEN BlstResult("BLST_POINT_NOT_ON_CURVE", blst_p1_affine_default)
                  ELSE LET y == IF blst_sgn0_fp(r.v) # (Bit(in0, 5) = 1)
                                THEN FqNeg(r.v) ELSE r.v
                       IN  BlstResult(
                               IF x = 0 THEN "BLST_POINT_NOT_IN_GROUP"
                               ELSE "BLST_SUCCESS",
                               [x |-> to_fp(x), y |-> to_fp(y)])

\* POINTonE1_Deserialize_Z = blst_p1_deserialize
blst_p1_deserialize(in) ==
    LET in0 == in[1] IN
    IF in0 \div 32 = 0 THEN blst_p1_deserialize_be(in)
    ELSE IF Bit(in0, 7) = 1 THEN blst_p1_uncompress(Slice(in, 0, 48))
    ELSE IF Bit(in0, 6) = 1 /\ in0 % 64 = 0 /\ Slice(in, 1, 96) = Zeros(95)
    THEN BlstResult("BLST_SUCCESS", blst_p1_affine_default)
    ELSE BlstResult("BLST_BAD_ENCODING", blst_p1_affine_default)

\* POINTonE2_Deserialize_BE
blst_p2_deserialize_be(in) ==
    LET x1d == blst_limbs_from_be_bytes(Slice(in, 0, 48), TRUE)
        x0d == blst_limbs_from_be_bytes(Slice(in, 48, 96), FALSE)
        y1d == blst_limbs_from_be_bytes(Slice(in, 96, 144), FALSE)
        y0d == blst_limbs_from_be_bytes(Slice(in, 144, 192), FALSE)
    IN  IF \E d \in {x1d, x0d, y1d, y0d} : ~blst_less_than_modulus(d)
        THEN BlstResult("BLST_BAD_ENCODING", blst_p2_affine_default)
        ELSE LET x == Fq2_new(LeBytesMod(x0d, FqModulus), LeBytesMod(x1d, FqModulus))
                 y == Fq2_new(LeBytesMod(y0d, FqModulus), LeBytesMod(y1d, FqModulus))
             IN  IF ~G2OnCurve(x, y)
                 THEN BlstResult("BLST_POINT_NOT_ON_CURVE", blst_p2_affine_default)
                 ELSE BlstResult("BLST_SUCCESS", [x |-> to_fp2(x), y |-> to_fp2(y)])

\* POINTonE2_Uncompress_Z = blst_p2_uncompress
blst_p2_uncompress(in) ==
    LET in0 == in[1] IN
    IF Bit(in0, 7) = 0
    THEN BlstResult("BLST_BAD_ENCODING", blst_p2_affine_default)
    ELSE IF Bit(in0, 6) = 1
    THEN IF in0 % 64 = 0 /\ Slice(in, 1, 96) = Zeros(95)
         THEN BlstResult("BLST_SUCCESS", blst_p2_affine_default)
         ELSE BlstResult("BLST_BAD_ENCODING", blst_p2_affine_default)
    ELSE LET x1d == blst_limbs_from_be_bytes(Slice(in, 0, 48), TRUE)
             x0d == blst_limbs_from_be_bytes(Slice(in, 48, 96), FALSE)
         IN
         IF ~blst_less_than_modulus(x1d) \/ ~blst_less_than_modulus(x0d)
         THEN BlstResult("BLST_BAD_ENCODING", blst_p2_affine_default)
         ELSE LET x == Fq2_new(LeBytesMod(x0d, FqModulus),
                               LeBytesMod(x1d, FqModulus))
                  r == Fq2Sqrt(Fq2Add(Fq2Mul(Fq2Mul(x, x), x), G2_COEFF_B))
              IN  IF ~r.some
                  THEN BlstResult("BLST_POINT_NOT_ON_CURVE", blst_p2_affine_default)
                  ELSE LET y == IF blst_sgn0_fp2(r.v) # (Bit(in0, 5) = 1)
                                THEN Fq2Neg(r.v) ELSE r.v
                       IN  BlstResult(
                               IF x = Fq2Zero THEN "BLST_POINT_NOT_IN_GROUP"
                               ELSE "BLST_SUCCESS",
                               [x |-> to_fp2(x), y |-> to_fp2(y)])

\* POINTonE2_Deserialize_Z = blst_p2_deserialize
blst_p2_deserialize(in) ==
    LET in0 == in[1] IN
    IF in0 \div 32 = 0 THEN blst_p2_deserialize_be(in)
    ELSE IF Bit(in0, 7) = 1 THEN blst_p2_uncompress(Slice(in, 0, 96))
    ELSE IF Bit(in0, 6) = 1 /\ in0 % 64 = 0 /\ Slice(in, 1, 192) = Zeros(191)
    THEN BlstResult("BLST_SUCCESS", blst_p2_affine_default)
    ELSE BlstResult("BLST_BAD_ENCODING", blst_p2_affine_default)

---------------------------------------------------------------------------
(* Affine point translations                                               *)

bls_g1_affine_to_blst_g1_affine_deserialize(pt) ==
    LET tmp_p1 == [x |-> bls_fq_to_blst_fp(pt.x), y |-> bls_fq_to_blst_fp(pt.y)]
        tmp2 == blst_p1_affine_serialize(tmp_p1)
    IN  blst_p1_deserialize(tmp2)

\* assert!(blst_p1_deserialize(..) == BLST_SUCCESS)
bls_g1_affine_to_blst_g1_affine_panics(pt) ==
    bls_g1_affine_to_blst_g1_affine_deserialize(pt).err # "BLST_SUCCESS"

bls_g1_affine_to_blst_g1_affine(pt) ==
    bls_g1_affine_to_blst_g1_affine_deserialize(pt).p

blst_g1_affine_to_bls_g1_affine(pt) ==
    LET out == blst_p1_affine_serialize(pt)
        infinity == Bit(out[1], 6) # 0
    IN  GroupAffine_new(
            from_be_bytes_mod_order(Slice(out, 0, 48), FqModulus),
            from_be_bytes_mod_order(Slice(out, 48, G1_UNCOMPRESSED_SIZE), FqModulus),
            infinity)

bls_g2_affine_to_blst_g2_affine_deserialize(pt) ==
    LET tmp_p2 == [x |-> bls_fq2_to_blst_fp2(pt.x), y |-> bls_fq2_to_blst_fp2(pt.y)]
        tmp2 == blst_p2_affine_serialize(tmp_p2)
    IN  blst_p2_deserialize(tmp2)

\* assert!(blst_p2_deserialize(..) == BLST_SUCCESS)
bls_g2_affine_to_blst_g2_affine_panics(pt) ==
    bls_g2_affine_to_blst_g2_affine_deserialize(pt).err # "BLST_SUCCESS"

bls_g2_affine_to_blst_g2_affine(pt) ==
    bls_g2_affine_to_blst_g2_affine_deserialize(pt).p

blst_g2_affine_to_bls_g2_affine_panics(pt) ==
    blst_fp2_to_bls_fq2_panics(pt.x) \/ blst_fp2_to_bls_fq2_panics(pt.y)

blst_g2_affine_to_bls_g2_affine(pt) ==
    LET ptx == blst_fp2_to_bls_fq2(pt.x)
        pty == blst_fp2_to_bls_fq2(pt.y)
        out == blst_p2_affine_serialize(pt)
        infinity == Bit(out[1], 6) # 0
    IN  GroupAffine_new(ptx, pty, infinity)

---------------------------------------------------------------------------
(* Zcash point encodings to Arkworks points and back                       *)

\* a variant that writes the limbs least significant first
bls_fq_to_zcash_bytes_limbs_le(field) ==
    LET rep == into_repr(field, 6)
    IN  u64_to_be_bytes(rep[1]) \o u64_to_be_bytes(rep[2])
            \o u64_to_be_bytes(rep[3]) \o u64_to_be_bytes(rep[4])
            \o u64_to_be_bytes(rep[5]) \o u64_to_be_bytes(rep[6])

bls_fq_to_zcash_bytes(field) ==
    LET rep == into_repr(field, 6)
    IN  u64_to_be_bytes(rep[6]) \o u64_to_be_bytes(rep[5])
            \o u64_to_be_bytes(rep[4]) \o u64_to_be_bytes(rep[3])
            \o u64_to_be_bytes(rep[2]) \o u64_to_be_bytes(rep[1])

\* a variant that reduces the integer modulo the prime
bls_fq_from_zcash_bytes_mod_order(bytes) ==
    Some(from_be_bytes_mod_order(bytes, FqModulus))

bls_fq_from_zcash_bytes(bytes) ==
    LET tmp == << u64_from_be_bytes(Slice(bytes, 40, 48)),
                  u64_from_be_bytes(Slice(bytes, 32, 40)),
                  u64_from_be_bytes(Slice(bytes, 24, 32)),
                  u64_from_be_bytes(Slice(bytes, 16, 24)),
                  u64_from_be_bytes(Slice(bytes, 8, 16)),
                  u64_from_be_bytes(Slice(bytes, 0, 8)) >>
    IN  from_repr(tmp, FqModulus)

EncodingFlags_new(is_compressed, is_infinity, is_lexicographically_largest) ==
    [is_compressed |-> is_compressed,
     is_infinity |-> is_infinity,
     is_lexicographically_largest |-> is_lexicographically_largest]

\* impl From<&[u8]> for EncodingFlags
EncodingFlags_from(bytes) ==
    EncodingFlags_new(Bit(bytes[1], 7) = 1, Bit(bytes[1], 6) = 1,
                      Bit(bytes[1], 5) = 1)

\* a variant with the infinity and sign bit positions exchanged
encode_flags_bits_exchanged(self, bytes) ==
    LET b1 == IF self.is_compressed THEN SetBit(bytes[1], 7) ELSE bytes[1]
        b2 == IF self.is_infinity THEN SetBit(b1, 5) ELSE b1
        b3 == IF self.is_compressed /\ ~self.is_infinity
                    /\ self.is_lexicographically_largest
              THEN SetBit(b2, 6) ELSE b2
    IN  [bytes EXCEPT ![1] = b3]

\* a variant that sets the sign bit whenever the flag asks for it
encode_flags_sign_unguarded(self, bytes) ==
    LET b1 == IF self.is_compressed THEN SetBit(bytes[1], 7) ELSE bytes[1]
        b2 == IF self.is_infinity THEN SetBit(b1, 6) ELSE b1
        b3 == IF self.is_lexicographically_largest THEN SetBit(b2, 5) ELSE b2
    IN  [bytes EXCEPT ![1] = b3]

encode_flags(self, bytes) ==
    LET b1 == IF self.is_compressed THEN SetBit(bytes[1], 7) ELSE bytes[1]
        b2 == IF self.is_infinity THEN SetBit(b1, 6) ELSE b1
        b3 == IF self.is_compressed /\ ~self.is_infinity
                    /\ self.is_lexicographically_largest
              THEN SetBit(b2, 5) ELSE b2
    IN  [bytes EXCEPT ![1] = b3]

\* a variant without the is_compressed check
bls_g1_affine_from_zcash_bytes_unchecked(bytes) ==
    LET flags == EncodingFlags_from(bytes) IN
    IF flags.is_infinity THEN Some(BlsG1Affine_default)
    ELSE LET tmp == [Slice(bytes, 0, 48) EXCEPT ![1] = @ % 32]
             x == bls_fq_from_zcash_bytes(tmp)
         IN  IF ~x.some THEN None
             ELSE BlsG1Affine_get_point_from_x(
                      x.v, flags.is_lexicographically_largest)

bls_g1_affine_from_zcash_bytes(bytes) ==
    LET flags == EncodingFlags_from(bytes) IN
    IF ~flags.is_compressed THEN None
    ELSE IF flags.is_infinity THEN Some(BlsG1Affine_default)
    ELSE LET tmp == [Slice(bytes, 0, 48) EXCEPT ![1] = @ % 32]
             x == bls_fq_from_zcash_bytes(tmp)
         IN  IF ~x.some THEN None
             ELSE BlsG1Affine_get_point_from_x(
                      x.v, flags.is_lexicographically_largest)

\* a variant with the comparison of y and -y reversed
bls_g1_affine_to_zcash_bytes_sign_reversed(p) ==
    LET result == bls_fq_to_zcash_bytes(p.x)
        encoding == EncodingFlags_new(TRUE, p.infinity, FqGreater(FqNeg(p.y), p.y))
    IN  encode_flags(encoding, result)

bls_g1_affine_to_zcash_bytes(p) ==
    LET result == bls_fq_to_zcash_bytes(p.x)
        encoding == EncodingFlags_new(TRUE, p.infinity, FqGreater(p.y, FqNeg(p.y)))
    IN  encode_flags(encoding, result)

\* a variant that reads x before it looks at the infinity flag
bls_g2_affine_from_zcash_bytes_x_first(bytes) ==
    LET flags == EncodingFlags_from(bytes)
        xc1 == bls_fq_from_zcash_bytes([Slice(bytes, 0, 48) EXCEPT ![1] = @ % 32])
        xc0 == bls_fq_from_zcash_bytes(Slice(bytes, 48, 96))
    IN  IF ~flags.is_compressed THEN None
        ELSE IF ~xc1.some \/ ~xc0.some THEN None
        ELSE IF flags.is_infinity THEN Some(BlsG2Affine_default)
        ELSE BlsG2Affine_get_point_from_x(
                 Fq2_new(xc0.v, xc1.v), flags.is_lexicographically_largest)

bls_g2_affine_from_zcash_bytes(bytes) ==
    LET flags == EncodingFlags_from(bytes) IN
    IF ~flags.is_compressed THEN None
    ELSE IF flags.is_infinity THEN Some(BlsG2Affine_default)
    ELSE LET xc1 == bls_fq_from_zcash_bytes(
                        [Slice(bytes, 0, 48) EXCEPT ![1] = @ % 32])
         IN  IF ~xc1.some THEN None
             ELSE LET xc0 == bls_fq_from_zcash_bytes(Slice(bytes, 48, 96))
                  IN  IF ~xc0.some THEN None
                      ELSE BlsG2Affine_get_point_from_x(
                               Fq2_new(xc0.v, xc1.v),
                               flags.is_lexicographically_largest)

\* a variant that writes x.c0 before x.c1
bls_g2_affine_to_zcash_bytes_c0_first(p) ==
    LET c1_bytes == bls_fq_to_zcash_bytes(p.x.c1)
        c0_bytes == bls_fq_to_zcash_bytes(p.x.c0)
        bytes == c0_bytes \o c1_bytes
        encoding == EncodingFlags_new(TRUE, p.infinity, Fq2Greater(p.y, Fq2Neg(p.y)))
    IN  encode_flags(encoding, bytes)

bls_g2_affine_to_zcash_bytes(p) ==
    LET c1_bytes == bls_fq_to_zcash_bytes(p.x.c1)
        c0_bytes == bls_fq_to_zcash_bytes(p.x.c0)
        bytes == c1_bytes \o c0_bytes
        encoding == EncodingFlags_new(TRUE, p.infinity, Fq2Greater(p.y, Fq2Neg(p.y)))
    IN  encode_flags(encoding, bytes)

---------------------------------------------------------------------------
(* bn254/utils.rs: the split of a public key into two field elements.  The *)
(* order of the BN254 scalar field is scaled down to a prime below 256; a  *)
(* BigUint is kept as its base-256 digits, least significant first.        *)

Bn254FrModulus == 251

BigUint_from_bytes_be(bytes) == Reverse(bytes)
Bn254Fr_from(n) == LeBytesMod(n, Bn254FrModulus)

\* eph_pk_bytes.len() - 16 underflows, or split_at panics on the wrapped
\* index, when the input has fewer than 16 bytes
split_to_two_frs_panics(eph_pk_bytes) == Len(eph_pk_bytes) < 16

split_to_two_frs(eph_pk_bytes) ==
    LET mid == Len(eph_pk_bytes) - 16
        first_half == Slice(eph_pk_bytes, 0, mid)
        second_half == Slice(eph_pk_bytes, mid, Len(eph_pk_bytes))
        first_bigint == BigUint_from_bytes_be(first_half)
        second_bigint == BigUint_from_bytes_be(second_half)
        eph_public_key_0 == Bn254Fr_from(first_bigint)
        eph_public_key_1 == Bn254Fr_from(second_bigint)
    IN  [ok |-> TRUE, v |-> << eph_public_key_0, eph_public_key_1 >>]

---------------------------------------------------------------------------
(* The state: a value and the conversions applied to it so far.  hist[1]   *)
(* is the caller's input, hist[i + 1] the result of calling hist[i + 1].op *)
(* on hist[i].v.  Every function is pure, so a call only appends.          *)

VARIABLES hist
vars == << hist >>

\* bounds of the inputs and of the length of a chain of calls
MaxSteps == 3
MaxGarbage == 1
MaxLowBits == 1

Val(op, ty, v) == [op |-> op, ty |-> ty, v |-> v]
Last == hist[Len(hist)]

\* the words of the inputs: zero, a low digit, a high digit, every digit set
WordInputs ==
    { Zeros(8), << 1 >> \o Zeros(7), << 5 >> \o Zeros(7),
      Zeros(7) \o << 128 >>, << 255, 255, 255, 255, 255, 255, 255, 255 >> }

Fq2Sample == { Fq2_new(a, b) : a \in {0, 1, 18}, b \in {0, 8} }
Fq6Sample ==
    { Fq6_new(a, b, c) : a \in Fq2Sample, b \in {Fq2_new(1, 8)},
                           c \in {Fq2Zero, Fq2_new(18, 0)} }

\* byte 0: every flag triple over the low bits 0..MaxLowBits
FlagBytes == { f * 32 + low : f \in 0..7, low \in 0..MaxLowBits }
\* the last byte of a 48-byte component: below and above the modulus
LowBytes == {0, 1, 7, 8, 11, 12, 18, 19, 20, 255}

Bytes48Inputs ==
    { << b0, g >> \o Zeros(G1_COMPRESSED_SIZE - 3) \o << last >> :
        b0 \in FlagBytes, g \in 0..MaxGarbage, last \in 0..(2 * FqModulus) }

Bytes96Inputs ==
    { << b0, g >> \o Zeros(G1_COMPRESSED_SIZE - 3) \o << l1 >>
            \o << h >> \o Zeros(G1_COMPRESSED_SIZE - 2) \o << l0 >> :
        b0 \in FlagBytes, g \in 0..MaxGarbage, l1 \in LowBytes,
        h \in {0, 32}, l0 \in {0, 2, 19} }

\* the arguments of encode_flags: every flag triple, and buffers of both
\* sizes with any byte 0 and bytes behind it that are not zero
EncodeFlagsInputs ==
    { [self |-> EncodingFlags_new(c, i, l),
       bytes |-> << b0, g >> \o Zeros(n - 3) \o << last >>] :
        c \in BOOLEAN, i \in BOOLEAN, l \in BOOLEAN,
        b0 \in FlagBytes \cup {31, 255}, g \in 0..MaxGarbage,
        n \in {G1_COMPRESSED_SIZE, G2_COMPRESSED_SIZE}, last \in {0, 255} }

\* the inputs of split_to_two_frs: the documented 33 bytes (flag ||
\* pk_bytes) and shorter slices, zero but for up to two bytes around the
\* two candidate split points and at the ends
PkLens == {15, 16, 17, 32, 33}
PkInputsOfLen(n) ==
    { [[Zeros(n) EXCEPT ![k1] = v1] EXCEPT ![k2] = v2] :
        k1 \in {1, 15}, k2 \in {16, 17, 18, 33} \cap 1..n,
        v1 \in {0, 1}, v2 \in {0, 7, 255} }
PkInputs ==
    UNION { PkInputsOfLen(n) : n \in PkLens } \cup { Zeros(15), << >> }

\* the valid points of Library B: the prime subgroup and the point at infinity
ValidBlstG1 ==
    { [x |-> bls_fq_to_blst_fp(p.x), y |-> bls_fq_to_blst_fp(p.y)] :
        p \in ValidBlsG1 \ {BlsG1Affine_default} } \cup {blst_p1_affine_default}
ValidBlstG2 ==
    { [x |-> bls_fq2_to_blst_fp2(p.x), y |-> bls_fq2_to_blst_fp2(p.y)] :
        p \in ValidBlsG2 \ {BlsG2Affine_default} } \cup {blst_p2_affine_default}

Input(ty, v) == hist = << Val("input", ty, v) >>

Init ==
    \/ \E x \in Fr : Input("BlsFr", x)
    \/ \E w \in [1..4 -> WordInputs] : Input("u64x4", << w[1], w[2], w[3], w[4] >>)
    \/ \E x \in Fq : Input("Fq", x)
    \/ \E w0 \in WordInputs, w5 \in WordInputs :
          Input("u64x6", << w0, Zeros(8), Zeros(8), Zeros(8), Zeros(8), w5 >>)
    \/ \E x \in Fq2Sample : Input("Fq2", x)
    \/ \E x \in Fq6Sample : Input("Fq6", x)
    \/ \E a \in Fq6Sample, b \in Fq6Sample : Input("Fq12", Fq12_new(a, b))
    \/ \E q \in ValidBlstG1 : Input("blst_p1_affine", q)
    \/ \E q \in ValidBlstG2 : Input("blst_p2_affine", q)
    \/ \E b \in Bytes48Inputs : Input("Bytes48", b)
    \/ \E b \in Bytes96Inputs : Input("Bytes96", b)
    \/ \E a \in EncodeFlagsInputs : Input("EncodeFlagsArgs", a)
    \/ \E b \in PkInputs : Input("PkBytes", b)

\* a call of a function from type `from`, appending its result
Call(op, from, to, v) ==
    /\ Len(hist) <= MaxSteps
    /\ Last.ty = from
    /\ hist' = Append(hist, Val(op, to, v))

\* a call that can panic: the chain ends in the panic
CallOrPanic(op, from, to, panics, v) ==
    /\ Len(hist) <= MaxSteps
    /\ Last.ty = from
    /\ hist' = Append(hist, IF panics THEN Val(op, "panic", 0) ELSE Val(op, to, v))

---------------------------------------------------------------------------
(* One action per function                                                 *)

\* the generators of the property tests
Call_arb_blst_fr ==
    Call("arb_blst_fr", "u64x4", "blst_fr", blst_fr_from_uint64(Last.v))
Call_arb_blst_fp ==
    Call("arb_blst_fp", "u64x6", "blst_fp", blst_fp_from_uint64(Last.v))
Call_arb_bls_g1_affine ==
    Call("arb_bls_g1_affine", "BlsFr", "BlsG1Affine", G1Mul(G1Generator, Last.v))
Call_arb_bls_g2_affine ==
    Call("arb_bls_g2_affine", "BlsFr", "BlsG2Affine", G2Mul(G2Generator, Last.v))

Call_bls_fr_to_blst_fr ==
    Call("bls_fr_to_blst_fr", "BlsFr", "blst_fr", bls_fr_to_blst_fr(Last.v))
Call_blst_fr_to_bls_fr ==
    Call("blst_fr_to_bls_fr", "blst_fr", "BlsFr", blst_fr_to_bls_fr(Last.v))

Call_bls_fq_to_blst_fp ==
    Call("bls_fq_to_blst_fp", "Fq", "blst_fp", bls_fq_to_blst_fp(Last.v))
Call_blst_fp_to_bls_fq ==
    CallOrPanic("blst_fp_to_bls_fq", "blst_fp", "Fq",
                blst_fp_to_bls_fq_panics(Last.v), blst_fp_to_bls_fq(Last.v))
Call_bls_fq2_to_blst_fp2 ==
    Call("bls_fq2_to_blst_fp2", "Fq2", "blst_fp2", bls_fq2_to_blst_fp2(Last.v))
Call_blst_fp2_to_bls_fq2 ==
    CallOrPanic("blst_fp2_to_bls_fq2", "blst_fp2", "Fq2",
                blst_fp2_to_bls_fq2_panics(Last.v), blst_fp2_to_bls_fq2(Last.v))
Call_bls_fq6_to_blst_fp6 ==
    Call("bls_fq6_to_blst_fp6", "Fq6", "blst_fp6", bls_fq6_to_blst_fp6(Last.v))
Call_blst_fp6_to_bls_fq6 ==
    CallOrPanic("blst_fp6_to_bls_fq6", "blst_fp6", "Fq6",
                blst_fp6_to_bls_fq6_panics(Last.v), blst_fp6_to_bls_fq6(Last.v))
Call_bls_fq12_to_blst_fp12 ==
    Call("bls_fq12_to_blst_fp12", "Fq12", "blst_fp12", bls_fq12_to_blst_fp12(Last.v))
Call_blst_fp12_to_bls_fq12 ==
    CallOrPanic("blst_fp12_to_bls_fq12", "blst_fp12", "Fq12",
                blst_fp12_to_bls_fq12_panics(Last.v), blst_fp12_to_bls_fq12(Last.v))

Call_bls_g1_affine_to_blst_g1_affine ==
    CallOrPanic("bls_g1_affine_to_blst_g1_affine", "BlsG1Affine", "blst_p1_affine",
                bls_g1_affine_to_blst_g1_affine_panics(Last.v),
                bls_g1_affine_to_blst_g1_affine(Last.v))
Call_blst_g1_affine_to_bls_g1_affine ==
    Call("blst_g1_affine_to_bls_g1_affine", "blst_p1_affine", "BlsG1Affine",
         blst_g1_affine_to_bls_g1_affine(Last.v))
Call_bls_g2_affine_to_blst_g2_affine ==
    CallOrPanic("bls_g2_affine_to_blst_g2_affine", "BlsG2Affine", "blst_p2_affine",
                bls_g2_affine_to_blst_g2_affine_panics(Last.v),
                bls_g2_affine_to_blst_g2_affine(Last.v))
Call_blst_g2_affine_to_bls_g2_affine ==
    CallOrPanic("blst_g2_affine_to_bls_g2_affine", "blst_p2_affine", "BlsG2Affine",
                blst_g2_affine_to_bls_g2_affine_panics(Last.v),
                blst_g2_affine_to_bls_g2_affine(Last.v))

Call_bls_g1_affine_from_zcash_bytes ==
    Call("bls_g1_affine_from_zcash_bytes", "Bytes48", "Option<BlsG1Affine>",
         bls_g1_affine_from_zcash_bytes(Last.v))
Call_bls_g1_affine_to_zcash_bytes ==
    Call("bls_g1_affine_to_zcash_bytes", "BlsG1Affine", "Bytes48",
         bls_g1_affine_to_zcash_bytes(Last.v))
Call_bls_g2_affine_from_zcash_bytes ==
    Call("bls_g2_affine_from_zcash_bytes", "Bytes96", "Option<BlsG2Affine>",
         bls_g2_affine_from_zcash_bytes(Last.v))
Call_bls_g2_affine_to_zcash_bytes ==
    Call("bls_g2_affine_to_zcash_bytes", "BlsG2Affine", "Bytes96",
         bls_g2_affine_to_zcash_bytes(Last.v))

\* encode_flags on a caller's buffer; the result is the buffer after the call
Call_encode_flags ==
    Call("encode_flags", "EncodeFlagsArgs", "Bytes",
         encode_flags(Last.v.self, Last.v.bytes))

Call_split_to_two_frs ==
    CallOrPanic("split_to_two_frs", "PkBytes", "Result<(Bn254Fr, Bn254Fr)>",
                split_to_two_frs_panics(Last.v), split_to_two_frs(Last.v))

\* Option::unwrap, as the tests apply it to the decoder's result
Call_unwrap_g1 ==
    CallOrPanic("unwrap", "Option<BlsG1Affine>", "BlsG1Affine",
                ~Last.v.some, Last.v.v)
Call_unwrap_g2 ==
    CallOrPanic("unwrap", "Option<BlsG2Affine>", "BlsG2Affine",
                ~Last.v.some, Last.v.v)

\* Library B's native compressed-point encoder and decoder
Call_blst_p1_affine_compress ==
    Call("blst_p1_affine_compress", "blst_p1_affine", "Bytes48",
         blst_p1_affine_compress(Last.v))
Call_blst_p1_uncompress ==
    Call("blst_p1_uncompress", "Bytes48", "BLST_ERROR", blst_p1_uncompress(Last.v).err)
Call_blst_p2_affine_compress ==
    Call("blst_p2_affine_compress", "blst_p2_affine", "Bytes96",
         blst_p2_affine_compress(Last.v))
Call_blst_p2_uncompress ==
    Call("blst_p2_uncompress", "Bytes96", "BLST_ERROR", blst_p2_uncompress(Last.v).err)

Next ==
    \/ Call_arb_blst_fr
    \/ Call_arb_blst_fp
    \/ Call_arb_bls_g1_affine
    \/ Call_arb_bls_g2_affine
    \/ Call_bls_fr_to_blst_fr
    \/ Call_blst_fr_to_bls_fr
    \/ Call_bls_fq_to_blst_fp
    \/ Call_blst_fp_to_bls_fq
    \/ Call_bls_fq2_to_blst_fp2
    \/ Call_blst_fp2_to_bls_fq2
    \/ Call_bls_fq6_to_blst_fp6
    \/ Call_blst_fp6_to_bls_fq6
    \/ Call_bls_fq12_to_blst_fp12
    \/ Call_blst_fp12_to_bls_fq12
    \/ Call_bls_g1_affine_to_blst_g1_affine
    \/ Call_blst_g1_affine_to_bls_g1_affine
    \/ Call_bls_g2_affine_to_blst_g2_affine
    \/ Call_blst_g2_affine_to_bls_g2_affine
    \/ Call_bls_g1_affine_from_zcash_bytes
    \/ Call_bls_g1_affine_to_zcash_bytes
    \/ Call_bls_g2_affine_from_zcash_bytes
    \/ Call_bls_g2_affine_to_zcash_bytes
    \/ Call_encode_flags
    \/ Call_split_to_two_frs
    \/ Call_unwrap_g1
    \/ Call_unwrap_g2
    \/ Call_blst_p1_affine_compress
    \/ Call_blst_p1_uncompress
    \/ Call_blst_p2_affine_compress
    \/ Call_blst_p2_uncompress

Spec == Init /\ [][Next]_vars

TypeOK ==
    /\ Len(hist) \in 1..(MaxSteps + 1)
    /\ hist[1].op = "input"

---------------------------------------------------------------------------
(* Properties                                                              *)

\* hist[i] and hist[i + 1] are the results of op1 and then op2
Then(i, op1, op2) ==
    /\ i \in 2..(Len(hist) - 1)
    /\ hist[i].op = op1
    /\ hist[i + 1].op = op2

\* C1: for every valid G1 and G2 point p of Library A (the prime subgroup
\* and the identity), decoding the Zcash bytes of p gives Some(p).
C1_ZcashRoundTrip ==
    \A i \in 2..(Len(hist) - 1) :
        /\ ( /\ Then(i, "bls_g1_affine_to_zcash_bytes", "bls_g1_affine_from_zcash_bytes")
             /\ hist[i - 1].v \in ValidBlsG1 )
           => hist[i + 1].v = Some(hist[i - 1].v)
        /\ ( /\ Then(i, "bls_g2_affine_to_zcash_bytes", "bls_g2_affine_from_zcash_bytes")
             /\ hist[i - 1].v \in ValidBlsG2 )
           => hist[i + 1].v = Some(hist[i - 1].v)

\* a finite valid G1 point with the larger y has been encoded and decoded
C1_Witness ==
    \E i \in 2..(Len(hist) - 1) :
        /\ Then(i, "bls_g1_affine_to_zcash_bytes", "bls_g1_affine_from_zcash_bytes")
        /\ hist[i - 1].v \in ValidBlsG1
        /\ ~hist[i - 1].v.infinity
        /\ Bit(hist[i].v[1], 5) = 1
        /\ hist[i + 1].v = Some(hist[i - 1].v)

\* C2: for every valid G1 and G2 point p of Library A, the identity
\* included, the conversion to Library B does not panic and converting its
\* result back gives p.
C2_BridgeRoundTripFromA ==
    \A i \in 2..Len(hist) :
        /\ ( /\ hist[i].op = "bls_g1_affine_to_blst_g1_affine"
             /\ hist[i - 1].v \in ValidBlsG1 )
           => /\ hist[i].ty # "panic"
              /\ Then(i, "bls_g1_affine_to_blst_g1_affine",
                      "blst_g1_affine_to_bls_g1_affine")
                 => hist[i + 1].v = hist[i - 1].v
        /\ ( /\ hist[i].op = "bls_g2_affine_to_blst_g2_affine"
             /\ hist[i - 1].v \in ValidBlsG2 )
           => /\ hist[i].ty # "panic"
              /\ Then(i, "bls_g2_affine_to_blst_g2_affine",
                      "blst_g2_affine_to_bls_g2_affine")
                 => /\ hist[i + 1].ty # "panic"
                    /\ hist[i + 1].v = hist[i - 1].v

\* C3: for every valid G1 and G2 point q of Library B, the point at
\* infinity included, converting q to Library A and the result back to
\* Library B does not panic and gives q.
C3_BridgeRoundTripFromB ==
    \A i \in 2..(Len(hist) - 1) :
        /\ ( /\ Then(i, "blst_g1_affine_to_bls_g1_affine",
                     "bls_g1_affine_to_blst_g1_affine")
             /\ hist[i - 1].v \in ValidBlstG1 )
           => /\ hist[i + 1].ty # "panic"
              /\ hist[i + 1].v = hist[i - 1].v
        /\ ( /\ Then(i, "blst_g2_affine_to_bls_g2_affine",
                     "bls_g2_affine_to_blst_g2_affine")
             /\ hist[i - 1].v \in ValidBlstG2 )
           => /\ hist[i].ty # "panic"
              /\ hist[i + 1].ty # "panic"
              /\ hist[i + 1].v = hist[i - 1].v

\* C4: Library B's compressed decoder accepts the encoding of every valid
\* Library A point, and the decoder of the codec accepts the bytes that
\* Library B's compressed encoder gives for every valid Library B point
\* (G1 and G2).
C4_CrossLibraryCompatible ==
    \A i \in 2..(Len(hist) - 1) :
        /\ ( /\ Then(i, "bls_g1_affine_to_zcash_bytes", "blst_p1_uncompress")
             /\ hist[i - 1].v \in ValidBlsG1 )
           => hist[i + 1].v = "BLST_SUCCESS"
        /\ ( /\ Then(i, "bls_g2_affine_to_zcash_bytes", "blst_p2_uncompress")
             /\ hist[i - 1].v \in ValidBlsG2 )
           => hist[i + 1].v = "BLST_SUCCESS"
        /\ ( /\ Then(i, "blst_p1_affine_compress", "bls_g1_affine_from_zcash_bytes")
             /\ hist[i - 1].v \in ValidBlstG1 )
           => hist[i + 1].v.some
        /\ ( /\ Then(i, "blst_p2_affine_compress", "bls_g2_affine_from_zcash_bytes")
             /\ hist[i - 1].v \in ValidBlstG2 )
           => hist[i + 1].v.some

\* Library B has accepted the codec's encoding of a finite valid G2 point
C4_Witness ==
    \E i \in 2..(Len(hist) - 1) :
        /\ Then(i, "bls_g2_affine_to_zcash_bytes", "blst_p2_uncompress")
        /\ hist[i - 1].v \in ValidBlsG2
        /\ ~hist[i - 1].v.infinity
        /\ hist[i + 1].v = "BLST_SUCCESS"

\* C5: a Library A scalar converted to Library B and back is unchanged, and
\* a Library B scalar built from any four 64-bit words, converted to
\* Library A and back, is unchanged.
C5_ScalarRoundTrip ==
    \A i \in 2..(Len(hist) - 1) :
        /\ Then(i, "bls_fr_to_blst_fr", "blst_fr_to_bls_fr")
           => hist[i + 1].v = hist[i - 1].v
        /\ ( /\ Then(i, "blst_fr_to_bls_fr", "bls_fr_to_blst_fr")
             /\ hist[i - 1].op = "arb_blst_fr" )
           => hist[i + 1].v = hist[i - 1].v

\* a scalar built from words that denote more than the field order has
\* gone to Library A and back
C5_Witness ==
    /\ Len(hist) = 4
    /\ hist[1].ty = "u64x4"
    /\ hist[1].v[4] # Zeros(8)
    /\ Then(3, "blst_fr_to_bls_fr", "bls_fr_to_blst_fr")
    /\ hist[3].v # 0
    /\ hist[4].v = hist[2].v

\* C6: a base field element converted to Library B and back is unchanged,
\* and so are the elements of the degree-2, degree-6 and degree-12
\* extensions, whose bridges convert component i to component i.
C6_FieldRoundTrip ==
    \A i \in 2..Len(hist) :
        /\ Then(i, "bls_fq_to_blst_fp", "blst_fp_to_bls_fq")
           => hist[i + 1].ty = "Fq" /\ hist[i + 1].v = hist[i - 1].v
        /\ Then(i, "bls_fq2_to_blst_fp2", "blst_fp2_to_bls_fq2")
           => hist[i + 1].ty = "Fq2" /\ hist[i + 1].v = hist[i - 1].v
        /\ Then(i, "bls_fq6_to_blst_fp6", "blst_fp6_to_bls_fq6")
           => hist[i + 1].ty = "Fq6" /\ hist[i + 1].v = hist[i - 1].v
        /\ Then(i, "bls_fq12_to_blst_fp12", "blst_fp12_to_bls_fq12")
           => hist[i + 1].ty = "Fq12" /\ hist[i + 1].v = hist[i - 1].v
        /\ hist[i].op = "bls_fq2_to_blst_fp2"
           => hist[i].v.fp = << bls_fq_to_blst_fp(hist[i - 1].v.c0),
                                bls_fq_to_blst_fp(hist[i - 1].v.c1) >>
        /\ hist[i].op = "bls_fq6_to_blst_fp6"
           => hist[i].v.fp2 = << bls_fq2_to_blst_fp2(hist[i - 1].v.c0),
                                 bls_fq2_to_blst_fp2(hist[i - 1].v.c1),
                                 bls_fq2_to_blst_fp2(hist[i - 1].v.c2) >>
        /\ hist[i].op = "bls_fq12_to_blst_fp12"
           => hist[i].v.fp6 = << bls_fq6_to_blst_fp6(hist[i - 1].v.c0),
                                 bls_fq6_to_blst_fp6(hist[i - 1].v.c1) >>
        /\ (hist[i].op = "blst_fp2_to_bls_fq2" /\ hist[i].ty = "Fq2")
           => /\ hist[i].v.c0 = blst_fp_to_bls_fq(hist[i - 1].v.fp[1])
              /\ hist[i].v.c1 = blst_fp_to_bls_fq(hist[i - 1].v.fp[2])
        /\ (hist[i].op = "blst_fp6_to_bls_fq6" /\ hist[i].ty = "Fq6")
           => /\ hist[i].v.c0 = blst_fp2_to_bls_fq2(hist[i - 1].v.fp2[1])
              /\ hist[i].v.c1 = blst_fp2_to_bls_fq2(hist[i - 1].v.fp2[2])
              /\ hist[i].v.c2 = blst_fp2_to_bls_fq2(hist[i - 1].v.fp2[3])
        /\ (hist[i].op = "blst_fp12_to_bls_fq12" /\ hist[i].ty = "Fq12")
           => /\ hist[i].v.c0 = blst_fp6_to_bls_fq6(hist[i - 1].v.fp6[1])
              /\ hist[i].v.c1 = blst_fp6_to_bls_fq6(hist[i - 1].v.fp6[2])

\* a degree-12 element whose two halves differ has gone to Library B and back
C6_Witness ==
    /\ Then(2, "bls_fq12_to_blst_fp12", "blst_fp12_to_bls_fq12")
    /\ hist[1].v.c0 # hist[1].v.c1
    /\ hist[1].v.c0.c0 # hist[1].v.c0.c2
    /\ hist[1].v.c0.c0.c0 # hist[1].v.c0.c0.c1
    /\ hist[3].v = hist[1].v

\* C7: decode returns None for every 48-byte and every 96-byte input whose
\* byte 0 has bit 7 clear.
C7_UncompressedRejected ==
    \A i \in 2..Len(hist) :
        ( /\ hist[i].op \in {"bls_g1_affine_from_zcash_bytes",
                             "bls_g2_affine_from_zcash_bytes"}
          /\ Bit(hist[i - 1].v[1], 7) = 0 )
        => hist[i].v = None

\* a G1 input with bit 7 clear, the infinity bit set and an x on the curve
\* has been decoded
C7_Witness ==
    /\ Len(hist) >= 2
    /\ hist[2].op = "bls_g1_affine_from_zcash_bytes"
    /\ Bit(hist[1].v[1], 7) = 0
    /\ Bit(hist[1].v[1], 6) = 1
    /\ hist[1].v[48] = 1
    /\ hist[2].v = None

\* C8: decode returns the identity for every input whose byte 0 has bits 7
\* and 6 set, whatever the other bits and bytes are.
C8_InfinityShortCircuits ==
    \A i \in 2..Len(hist) :
        /\ ( /\ hist[i].op = "bls_g1_affine_from_zcash_bytes"
             /\ Bit(hist[i - 1].v[1], 7) = 1
             /\ Bit(hist[i - 1].v[1], 6) = 1 )
           => hist[i].v = Some(BlsG1Affine_default)
        /\ ( /\ hist[i].op = "bls_g2_affine_from_zcash_bytes"
             /\ Bit(hist[i - 1].v[1], 7) = 1
             /\ Bit(hist[i - 1].v[1], 6) = 1 )
           => hist[i].v = Some(BlsG2Affine_default)

\* a G2 input with the infinity bit, the sign bit, a low bit of byte 0 and
\* components that are not below the modulus has been decoded to the
\* identity
C8_Witness ==
    /\ Len(hist) >= 2
    /\ hist[2].op = "bls_g2_affine_from_zcash_bytes"
    /\ hist[1].v[1] = 225
    /\ hist[1].v[48] = 255
    /\ hist[1].v[49] = 32
    /\ hist[2].v = Some(BlsG2Affine_default)

\* C9: the encoding of the identity of G1 is 0xC0 followed by 47 zero
\* bytes, and that of the identity of G2 is 0xC0 followed by 95 zero bytes.
C9_IdentityEncoding ==
    \A i \in 2..Len(hist) :
        /\ ( /\ hist[i].op = "bls_g1_affine_to_zcash_bytes"
             /\ hist[i - 1].v = BlsG1Affine_default )
           => hist[i].v = << 192 >> \o Zeros(G1_COMPRESSED_SIZE - 1)
        /\ ( /\ hist[i].op = "bls_g2_affine_to_zcash_bytes"
             /\ hist[i - 1].v = BlsG2Affine_default )
           => hist[i].v = << 192 >> \o Zeros(G2_COMPRESSED_SIZE - 1)

\* the identity of G1, as generator.mul(0), has been encoded
C9_Witness ==
    /\ Len(hist) >= 3
    /\ hist[2].op = "arb_bls_g1_affine"
    /\ hist[2].v = BlsG1Affine_default
    /\ hist[3].op = "bls_g1_affine_to_zcash_bytes"
    /\ hist[3].v[1] = 192

\* C10: for every G1 and G2 point value with the infinity state set,
\* whatever its coordinates, encode gives 0xC0 followed by zero bytes.
C10_InfinityEncodesZeroPayload ==
    \A i \in 2..Len(hist) :
        /\ ( /\ hist[i].op = "bls_g1_affine_to_zcash_bytes"
             /\ hist[i - 1].v.infinity )
           => hist[i].v = << 192 >> \o Zeros(G1_COMPRESSED_SIZE - 1)
        /\ ( /\ hist[i].op = "bls_g2_affine_to_zcash_bytes"
             /\ hist[i - 1].v.infinity )
           => hist[i].v = << 192 >> \o Zeros(G2_COMPRESSED_SIZE - 1)

\* C11: encode_flags keeps the length of the buffer, the low 5 bits of
\* bytes[0] and every other byte, and only sets bits; on a buffer whose
\* top 3 bits were clear, bit 7 is is_compressed, bit 6 is is_infinity and
\* bit 5 is is_compressed and not is_infinity and
\* is_lexicographically_largest.
C11_EncodeFlagsFrame ==
    \A i \in 2..Len(hist) :
        hist[i].op = "encode_flags"
        => LET self == hist[i - 1].v.self
               old == hist[i - 1].v.bytes
               new == hist[i].v
           IN  /\ Len(new) = Len(old)
               /\ \A k \in 2..Len(old) : new[k] = old[k]
               /\ new[1] % 32 = old[1] % 32
               /\ \A k \in 5..7 : Bit(old[1], k) = 1 => Bit(new[1], k) = 1
               /\ old[1] < 32
                  => /\ (Bit(new[1], 7) = 1) = self.is_compressed
                     /\ (Bit(new[1], 6) = 1) = self.is_infinity
                     /\ (Bit(new[1], 5) = 1)
                            = ( /\ self.is_compressed
                                /\ ~self.is_infinity
                                /\ self.is_lexicographically_largest )

\* encode_flags has been called with the three flags set on a buffer with
\* clear top bits, low bits and a last byte that are not zero, and has
\* withheld the sign bit
C11_Witness ==
    /\ Len(hist) >= 2
    /\ hist[2].op = "encode_flags"
    /\ hist[1].v.self = EncodingFlags_new(TRUE, TRUE, TRUE)
    /\ hist[1].v.bytes[1] = 1
    /\ hist[1].v.bytes[Len(hist[1].v.bytes)] = 255
    /\ hist[2].v[1] = 193

\* the 48-byte big-endian form of a base field element (the modulus is
\* below 256, so the value is the last byte)
BigEndian48(f) == Zeros(G1_COMPRESSED_SIZE - 1) \o << f >>

\* bytes 0..47 of a buffer with the three flag bits of byte 0 cleared
MaskedHead(bytes) == [Slice(bytes, 0, 48) EXCEPT ![1] = @ % 32]

\* C12: for every G2 point value p, encode writes x.c1 big-endian into
\* bytes 0..47 (under the flag bits) and x.c0 big-endian into bytes 48..95;
\* a finite point that decode returns has x.c1 from bytes 0..47 with the
\* flag bits masked and x.c0 from bytes 48..95.
C12_G2WireOrder ==
    \A i \in 2..Len(hist) :
        /\ hist[i].op = "bls_g2_affine_to_zcash_bytes"
           => /\ MaskedHead(hist[i].v) = BigEndian48(hist[i - 1].v.x.c1)
              /\ Slice(hist[i].v, 48, 96) = BigEndian48(hist[i - 1].v.x.c0)
        /\ ( /\ hist[i].op = "bls_g2_affine_from_zcash_bytes"
             /\ hist[i].v.some
             /\ Bit(hist[i - 1].v[1], 6) = 0 )
           => /\ BigEndian48(hist[i].v.v.x.c1) = MaskedHead(hist[i - 1].v)
              /\ BigEndian48(hist[i].v.v.x.c0) = Slice(hist[i - 1].v, 48, 96)

\* a G2 buffer with different components that are not zero has been
\* decoded to a finite point, and the point has been encoded to the same
\* buffer
C12_Witness ==
    /\ Len(hist) = 4
    /\ hist[2].op = "bls_g2_affine_from_zcash_bytes"
    /\ hist[3].op = "unwrap"
    /\ hist[4].op = "bls_g2_affine_to_zcash_bytes"
    /\ hist[3].v.x.c1 = 1
    /\ hist[3].v.x.c0 = 2
    /\ ~hist[3].v.infinity
    /\ hist[4].v = hist[1].v

\* the big-endian integer of 48 bytes is below the modulus (the modulus is
\* below 256: every byte but the last is zero and the last is below it)
InRange48(bytes) ==
    /\ \A k \in 1..(G1_COMPRESSED_SIZE - 1) : bytes[k] = 0
    /\ bytes[G1_COMPRESSED_SIZE] < FqModulus

\* C13: decode of an input with the compressed flag set and the infinity
\* flag clear returns None when the integer of an x component (G1: bytes
\* 0..47 with the flag bits masked; G2: either component, the second one
\* unmasked) is not below the base field modulus.
C13_OutOfRangeRejected ==
    \A i \in 2..Len(hist) :
        /\ ( /\ hist[i].op = "bls_g1_affine_from_zcash_bytes"
             /\ Bit(hist[i - 1].v[1], 7) = 1
             /\ Bit(hist[i - 1].v[1], 6) = 0
             /\ ~InRange48(MaskedHead(hist[i - 1].v)) )
           => hist[i].v = None
        /\ ( /\ hist[i].op = "bls_g2_affine_from_zcash_bytes"
             /\ Bit(hist[i - 1].v[1], 7) = 1
             /\ Bit(hist[i - 1].v[1], 6) = 0
             /\ \/ ~InRange48(MaskedHead(hist[i - 1].v))
                \/ ~InRange48(Slice(hist[i - 1].v, 48, 96)) )
           => hist[i].v = None

\* a G2 buffer whose second component is the modulus itself, which reduced
\* would give the x of a point of the subgroup, has been decoded to None
C13_Witness ==
    /\ Len(hist) >= 2
    /\ hist[2].op = "bls_g2_affine_from_zcash_bytes"
    /\ hist[1].v[1] = 128
    /\ InRange48(MaskedHead(hist[1].v))
    /\ hist[1].v[48] = 8
    /\ hist[1].v[49] = 0
    /\ hist[1].v[96] = FqModulus
    /\ hist[2].v = None

\* C14: an import of base field bytes from Library B whose integer is not
\* below the modulus is reported to the caller as a failure value: the
\* conversion neither panics nor returns a field element (blst_fp_to_bls_fq)
\* or a point (blst_g1_affine_to_bls_g1_affine) built from the reduced
\* integer.
C14_ImportRejected ==
    \A i \in 2..Len(hist) :
        /\ ( /\ hist[i].op = "blst_fp_to_bls_fq"
             /\ ~InRange48(Reverse(as_byte_slice(blst_uint64_from_fp(hist[i - 1].v)))) )
           => hist[i].ty \notin {"Fq", "panic"}
        /\ ( /\ hist[i].op = "blst_g1_affine_to_bls_g1_affine"
             /\ LET out == blst_p1_affine_serialize(hist[i - 1].v)
                IN  \/ ~InRange48(Slice(out, 0, 48))
                    \/ ~InRange48(Slice(out, 48, 96)) )
           => hist[i].ty \notin {"BlsG1Affine", "panic"}

\* the integer w0 + w1 * 2^64 + w2 * 2^128 + w3 * 2^192 modulo m, every
\* word being the sum of its digits d_j * 2^(8 j)
RECURSIVE WordsValueMod(_, _, _)
WordsValueMod(words, k, m) ==
    IF k > 8 * Len(words) THEN 0
    ELSE LET w == words[((k - 1) \div 8) + 1]
             d == w[((k - 1) % 8) + 1]
         IN  (d * PowMod(2, 8 * (k - 1), m) + WordsValueMod(words, k + 1, m)) % m

\* C15: blst_fr_to_bls_fr returns, without panic, the integer that the
\* four words extracted from the Library B scalar denote (little-endian
\* word order, little-endian bytes in a word) modulo the scalar field
\* order; bls_fr_to_blst_fr gives Library B the words whose word i is
\* bytes 8i..8i+7 of the 32-byte little-endian serialization.
C15_ScalarWordLayout ==
    \A i \in 2..Len(hist) :
        /\ hist[i].op = "blst_fr_to_bls_fr"
           => /\ hist[i].ty = "BlsFr"
              /\ hist[i].v \in Fr
              /\ hist[i].v = WordsValueMod(blst_uint64_from_fr(hist[i - 1].v),
                                           1, FrModulus)
        /\ hist[i].op = "bls_fr_to_blst_fr"
           => LET ser == << hist[i - 1].v >> \o Zeros(SCALAR_SIZE - 1)
              IN  /\ hist[i].ty = "blst_fr"
                  /\ hist[i].v = blst_fr_from_uint64(
                         << Slice(ser, 0, 8), Slice(ser, 8, 16),
                            Slice(ser, 16, 24), Slice(ser, 24, 32) >>)
                  /\ WordsValueMod(blst_uint64_from_fr(hist[i].v), 1, FrModulus)
                         = hist[i - 1].v

\* a Library B scalar built from words whose top word is set has been
\* converted to a Library A scalar that is not zero
C15_Witness ==
    /\ Len(hist) >= 3
    /\ hist[1].ty = "u64x4"
    /\ hist[1].v[4] # Zeros(8)
    /\ hist[2].op = "arb_blst_fr"
    /\ hist[3].op = "blst_fr_to_bls_fr"
    /\ hist[3].v \in Fr \ {0}

C18_CanonicalEncoding ==
    \A i \in 2..(Len(hist) - 2) :
        ( /\ hist[i].op \in {"bls_g1_affine_from_zcash_bytes",
                             "bls_g2_affine_from_zcash_bytes"}
          /\ hist[i + 1].op = "unwrap"
          /\ hist[i + 1].ty # "panic"
          /\ hist[i + 2].op \in {"bls_g1_affine_to_zcash_bytes",
                                 "bls_g2_affine_to_zcash_bytes"}
          /\ Bit(hist[i - 1].v[1], 7) = 1 )
        => IF Bit(hist[i - 1].v[1], 6) = 0
           THEN hist[i + 2].v = hist[i - 1].v
           ELSE hist[i + 2].v = << 192 >> \o Zeros(Len(hist[i - 1].v) - 1)

\* a G1 buffer with the sign bit set has been decoded to a point and the
\* point encoded to the same buffer
C18_Witness ==
    /\ Len(hist) = 4
    /\ hist[2].op = "bls_g1_affine_from_zcash_bytes"
    /\ hist[3].op = "unwrap"
    /\ hist[4].op = "bls_g1_affine_to_zcash_bytes"
    /\ hist[1].v[1] = 160
    /\ hist[1].v[48] # 0
    /\ hist[4].v = hist[1].v

\* C17: split_to_two_frs returns Ok for every input, the first element
\* being the big-endian integer of the first 128 bits (16 bytes) of the
\* input and the second that of the bytes after them.
C17_SplitAt128Bits ==
    \A i \in 2..Len(hist) :
        hist[i].op = "split_to_two_frs"
        => /\ hist[i].ty # "panic"
           /\ hist[i].v.ok
           /\ hist[i].v.v[1]
                 = Bn254Fr_from(BigUint_from_bytes_be(Slice(hist[i - 1].v, 0, 16)))
           /\ hist[i].v.v[2]
                 = Bn254Fr_from(BigUint_from_bytes_be(
                       Slice(hist[i - 1].v, 16, Len(hist[i - 1].v))))

====
